---------------------------- MODULE Spec2Model ----------------------------
(***************************************************************************)
(* Authentication session lifecycle of the e-commerce backend:             *)
(* login / refreshToken / logout (authenticate controller) and the         *)
(* authenticateJWT middleware, over the Redis set "refreshTokens".          *)
(*                                                                         *)
(* Every server instance talks to the one shared Redis through its own     *)
(* ioredis connection: a command is written to the connection (cmdq), is   *)
(* executed by Redis some time later, and its reply is handed to the       *)
(* callback later again (replyq).  Both directions are FIFO per            *)
(* connection.  The clock counts the seconds jsonwebtoken works with.      *)
(*                                                                         *)
(* Further down: the order controller (createOrder and the cached order    *)
(* lists) and the product list of the product controller.                  *)
(***************************************************************************)
EXTENDS Naturals, Sequences, FiniteSets

VARIABLES
    now,            \* the clock, in the (scaled) seconds of iat / exp
    users,          \* Credential Store: username -> stored hash, or NoUser
    refreshTokens,  \* the Redis set "refreshTokens"
    cmdq,           \* per instance: commands written, not yet executed by Redis
    replyq,         \* per instance: replies of Redis, callback not yet run
    resp,           \* the response the last step sent (or its next() call), if any
    kept,           \* the access and the refresh token a client holds on to
    loggedOut,      \* history: tokens a successful logout removed from the set
    scen,           \* observations of the scripted session (SpecScenario only)
    stock,          \* Product collection: product id -> stock
    orders,         \* Order collection
    orderSeq,       \* number of orders created so far
    sold,           \* history: per product, the quantities of the orders created
    cache,          \* Redis keys of the cached lists: {} or {the cached list}
    ordering,       \* per call: the createOrder request being served
    listing,        \* per call: the getProducts request being served
    out             \* the response the last order or product step sent, if any

session == <<now, users, refreshTokens, cmdq, replyq, resp, kept, loggedOut, scen>>
shop == <<stock, orders, orderSeq, sold, cache, ordering, listing, out>>
vars == <<session, shop>>

(***************************************************************************)
(* Bounds of the model.                                                    *)
(***************************************************************************)
MaxTime == 2
MaxPending == 2

Instances == {"A", "B"}
Usernames == {"alice", "bob"}
Passwords == {"correct", "wrong"}

(***************************************************************************)
(* Configuration read from the environment.  The lifetimes are scaled to   *)
(* clock ticks: the access token lives 1 tick, the refresh token 2.        *)
(***************************************************************************)
JWT_ACCESS_TOKEN_SECRET == "access-secret"
JWT_REFRESH_TOKEN_SECRET == "refresh-secret"
JWT_ACCESS_TOKEN_EXPIRATION == 1
JWT_REFRESH_TOKEN_EXPIRATION == 2

(***************************************************************************)
(* bcrypt: a stored hash matches exactly the password it was made from.    *)
(***************************************************************************)
NoUser == <<"none">>
bcryptHash(password) == <<"bcrypt", password>>
bcryptCompare(password, hash) == hash = bcryptHash(password)

(***************************************************************************)
(* jsonwebtoken.  A token string is determined by its payload              *)
(* {username, iat, exp} and the secret that signed it: sign is a function, *)
(* two calls with the same username in the same second give one string.    *)
(***************************************************************************)
jwtSign(username, secret, expiresIn, clock) ==
    [sig |-> secret, username |-> username, iat |-> clock, exp |-> clock + expiresIn]

\* A cookie the request does not carry, and one whose value is "".
NoCookie == [sig |-> "undefined", username |-> "", iat |-> 0, exp |-> 0]
EmptyCookie == [sig |-> "empty", username |-> "", iat |-> 0, exp |-> 0]
\* A token signed with a key the server does not hold.
ForgedToken == [sig |-> "forged", username |-> "alice", iat |-> 0, exp |-> MaxTime + 1]

Falsy(cookie) == cookie.sig \in {"undefined", "empty"}

\* jwtVerify accepting a signature made with any of the server's secrets.
jwtVerifyAnySecret(token, secret, clock) ==
    IF token.sig \notin {JWT_ACCESS_TOKEN_SECRET, JWT_REFRESH_TOKEN_SECRET}
    THEN [err |-> "JsonWebTokenError", payload |-> NoCookie]
    ELSE IF clock >= token.exp
    THEN [err |-> "TokenExpiredError", payload |-> NoCookie]
    ELSE [err |-> "", payload |-> token]

\* jwtVerify still accepting a token in the second of its exp.
jwtVerifyExpiryExclusive(token, secret, clock) ==
    IF token.sig # secret
    THEN [err |-> "JsonWebTokenError", payload |-> NoCookie]
    ELSE IF clock > token.exp
    THEN [err |-> "TokenExpiredError", payload |-> NoCookie]
    ELSE [err |-> "", payload |-> token]

\* jwt.verify(token, secret, callback): the callback's (err, payload).
jwtVerify(token, secret, clock) ==
    IF token.sig # secret
    THEN [err |-> "JsonWebTokenError", payload |-> NoCookie]
    ELSE IF clock >= token.exp
    THEN [err |-> "TokenExpiredError", payload |-> NoCookie]
    ELSE [err |-> "", payload |-> token]

generateAccessToken(username) ==
    jwtSign(username, JWT_ACCESS_TOKEN_SECRET, JWT_ACCESS_TOKEN_EXPIRATION, now)

\* The token minted by generateRefreshToken; its sadd is RedisSend below.
generateRefreshToken(username) ==
    jwtSign(username, JWT_REFRESH_TOKEN_SECRET, JWT_REFRESH_TOKEN_EXPIRATION, now)

(***************************************************************************)
(* Responses.  The fields after `user` are observations taken when the     *)
(* response is sent; no handler reads them.                                *)
(***************************************************************************)
Response(op, status, message, presented) ==
    [op |-> op, status |-> status, message |-> message,
     accessCookie |-> NoCookie,    \* res.cookie("accessToken", ...)
     refreshCookie |-> NoCookie,   \* res.cookie("refreshToken", ...)
     cleared |-> {},               \* res.clearCookie(...)
     detail |-> FALSE,             \* the body carries the caught error
     nextCalls |-> 0,              \* calls of next()
     sent |-> IF status = 0 THEN 0 ELSE 1,  \* calls of res.json()
     user |-> NoCookie,            \* req.user
     presented |-> presented,      \* the cookie the request carried
     storeErr |-> FALSE,           \* Redis answered the call with an error
     member |-> FALSE,             \* token was in the set when Redis ran the command
     cause |-> "",                 \* login: which check rejected
     identity |-> "",              \* login: req.body.username, when accepted 
     verifyCalls |-> 0]            \* calls of jwt.verify

NoResponse == Response("none", 0, "", NoCookie)

\* What a client can put into a cookie: a token it was given and has kept, a
\* forgery, the empty string, nothing.
Presentable == {kept.accessToken, kept.refreshToken, ForgedToken, NoCookie, EmptyCookie}

\* A client that is handed a token keeps it in place of the older one (and keeps
\* its copy when a logout clears the cookie).
Keep(accessToken, refreshTok) ==
    kept' = [accessToken |-> accessToken, refreshToken |-> refreshTok]

\* The client is waiting for the answer to a refresh or a logout.
Awaiting ==
    \E i \in Instances :
        \/ replyq[i] # <<>>
        \/ \E k \in 1..Len(cmdq[i]) : cmdq[i][k].op # "sadd"

Pending == LET RECURSIVE Sum(_)
               Sum(S) == IF S = {} THEN 0
                         ELSE LET i == CHOOSE x \in S : TRUE
                              IN Len(cmdq[i]) + Len(replyq[i]) + Sum(S \ {i})
           IN Sum(Instances)

\* redisClient.<command>("refreshTokens", token[, callback]) on instance i.
RedisSend(i, command, token) ==
    cmdq' = [cmdq EXCEPT ![i] = Append(@,
                [op |-> command, tok |-> token])]

(***************************************************************************)
(* Orders and products.  The Product and Order collections live in MongoDB *)
(* and the lists served by getOrders, getOrdersByUserId and getProducts    *)
(* are cached in Redis under the keys below.  A handler runs up to its     *)
(* next await and is resumed when the awaited database call has answered;  *)
(* other requests run in between.                                          *)
(***************************************************************************)
MaxStock == 2
MaxOrders == 2

Products == {"p1", "p2"}
ProductIds == Products \cup {"p9"}     \* p9: an id that no product has
UserIds == {"u1"}
NoUserId == ""                         \* req.body.user missing
Calls == {"c1", "c2"}                  \* requests being served side by side

ORDER_CACHE_KEY == <<"orders:all">>
ORDER_CACHE_KEY_PREFIX == "orders:user:"
PRODUCT_CACHE_KEY == <<"products:all">>
UserKey(userId) == <<ORDER_CACHE_KEY_PREFIX, userId>>
CacheKeys == {ORDER_CACHE_KEY, PRODUCT_CACHE_KEY} \cup {UserKey(u) : u \in UserIds}

\* req.body.products of the orders a client places.
Item(p, q) == [product |-> p, quantity |-> q]
Carts == { <<Item("p1", 1)>>,
           <<Item("p1", MaxStock)>>,
           <<Item("p2", 1), Item("p1", MaxStock + 1)>>,
           <<Item("p1", 1), Item("p9", 1)>> }

\* A createOrder call: where it stands, its request, the item it is at, the
\* stock its Product document holds after "product.stock -= item.quantity",
\* and how many product.save() calls it has completed.
Idle == [pc |-> "idle", user |-> NoUserId, cart |-> <<>>, k |-> 0, local |-> 0, saved |-> 0]

\* A getProducts call: where it stands and the list Product.find() gave it.
NotListing == [pc |-> "idle", found |-> {}]

\* The response of an order or product handler; list holds the list in the
\* body, if any, and saved the product.save() calls the request completed.
Out(op, status, message) ==
    [op |-> op, status |-> status, message |-> message,
     user |-> NoUserId, list |-> {}, saved |-> 0]
NoOut == Out("none", 0, "")

ShopInit ==
    /\ stock = [p \in Products |-> MaxStock]
    /\ orders = {}
    /\ orderSeq = 0
    /\ sold = [p \in Products |-> 0]
    /\ cache = [key \in CacheKeys |-> {}]
    /\ ordering = [c \in Calls |-> Idle]
    /\ listing = [c \in Calls |-> NotListing]
    /\ out = NoOut

Init ==
    /\ ShopInit
    /\ now = 0
    /\ users = [u \in Usernames |-> IF u = "alice" THEN bcryptHash("correct") ELSE NoUser]
    /\ refreshTokens = {}
    /\ cmdq = [i \in Instances |-> <<>>]
    /\ replyq = [i \in Instances |-> <<>>]
    /\ resp = NoResponse
    /\ kept = [accessToken |-> NoCookie, refreshToken |-> NoCookie]
    /\ loggedOut = {}
    /\ scen = <<>>


(***************************************************************************)
(* POST /login.  The awaits (User.findOne, bcrypt.compare) read only the   *)
(* Credential Store; from generateAccessToken on the handler runs without  *)
(* yielding: the sadd is written to the connection, not awaited, and the   *)
(* response is sent at once.                                               *)
(***************************************************************************)
\* invalidCredentials telling an unknown user from a wrong password.
invalidCredentialsTelling(user) ==
    IF user = NoUser
    THEN [Response("login", 404, "User not found", NoCookie) EXCEPT !.cause = "no user"]
    ELSE [Response("login", 401, "Invalid credentials", NoCookie)
             EXCEPT !.cause = "wrong password"]

\* The else branch of login: one answer for either failed check.
invalidCredentials(user) ==
    [Response("login", 401, "Invalid credentials", NoCookie)
        EXCEPT !.cause = IF user = NoUser THEN "no user" ELSE "wrong password"]

\* login minting the refresh token without the sadd of generateRefreshToken.
loginUnregistered(i, username, password, dbOk) ==
    LET user == users[username]
        accessToken == generateAccessToken(username)
        refreshTok == generateRefreshToken(username)
    IN  /\ IF ~dbOk
           THEN /\ resp' = [Response("login", 500, "Error logging in", NoCookie)
                               EXCEPT !.detail = TRUE, !.cause = "db"]
                /\ UNCHANGED <<cmdq, kept>>
           ELSE IF user # NoUser /\ bcryptCompare(password, user)
           THEN /\ resp' = [Response("login", 200, "Logged in successfully", NoCookie)
                               EXCEPT !.accessCookie = accessToken,
                                      !.refreshCookie = refreshTok,
                                      !.identity = username]
                /\ Keep(accessToken, refreshTok)
                /\ UNCHANGED cmdq
           ELSE /\ resp' = invalidCredentials(user)
                /\ UNCHANGED <<cmdq, kept>>
        /\ UNCHANGED <<now, users, refreshTokens, replyq, loggedOut>>

login(i, username, password, dbOk) ==
    LET user == users[username]
        accessToken == generateAccessToken(username)
        refreshTok == generateRefreshToken(username)
    IN  /\ IF ~dbOk
           THEN \* User.findOne rejects: the catch block
                /\ resp' = [Response("login", 500, "Error logging in", NoCookie)
                               EXCEPT !.detail = TRUE, !.cause = "db"]
                /\ UNCHANGED <<cmdq, kept>>
           ELSE IF user # NoUser /\ bcryptCompare(password, user)
           THEN /\ Pending < MaxPending
                /\ RedisSend(i, "sadd", refreshTok)
                /\ resp' = [Response("login", 200, "Logged in successfully", NoCookie)
                               EXCEPT !.accessCookie = accessToken,
                                      !.refreshCookie = refreshTok,
                                      !.identity = username]
                /\ Keep(accessToken, refreshTok)
           ELSE /\ resp' = invalidCredentials(user)
                /\ UNCHANGED <<cmdq, kept>>
        /\ UNCHANGED <<now, users, refreshTokens, replyq, loggedOut>>

\* refreshToken without the test of the cookie.
refreshTokenUnguarded(i, token) ==
    /\ Pending < MaxPending
    /\ RedisSend(i, "sismember", token)
    /\ resp' = NoResponse
    /\ UNCHANGED <<now, users, refreshTokens, replyq, kept, loggedOut>>

(***************************************************************************)
(* POST /token, up to the sismember being written.                         *)
(***************************************************************************)
refreshToken(i, token) ==
    /\ IF Falsy(token)
       THEN /\ resp' = Response("refresh", 401, "Token is required", token)
            /\ UNCHANGED cmdq
       ELSE /\ Pending < MaxPending
            /\ RedisSend(i, "sismember", token)
            /\ resp' = NoResponse
    /\ UNCHANGED <<now, users, refreshTokens, replyq, kept, loggedOut>>

(***************************************************************************)
(* The sismember callback of refreshToken, and the jwt.verify callback     *)
(* inside it (jsonwebtoken calls it before verify returns).                *)
(***************************************************************************)
\* membershipFailed testing the error alone.
membershipFailedErrOnly(r) == r.err

\* if (err || reply !== 1)
membershipFailed(r) == r.err \/ r.reply # 1

\* refreshGrant rotating the refresh token as well.
refreshGrantRotating(i, seen, username) ==
    LET newAccessToken == generateAccessToken(username)
        newRefreshToken == generateRefreshToken(username)
    IN  /\ resp' = [seen EXCEPT !.status = 200, !.sent = 1,
                                !.message = "Access token refreshed",
                                !.accessCookie = newAccessToken,
                                !.refreshCookie = newRefreshToken]
        /\ Keep(newAccessToken, newRefreshToken)
        /\ RedisSend(i, "sadd", newRefreshToken)

\* refreshGrant minting the access token for a fixed account.
refreshGrantOtherUser(i, seen, username) ==
    LET newAccessToken == generateAccessToken("bob")
    IN  /\ resp' = [seen EXCEPT !.status = 200, !.sent = 1,
                                !.message = "Access token refreshed",
                                !.accessCookie = newAccessToken]
        /\ Keep(newAccessToken, kept.refreshToken)
        /\ UNCHANGED cmdq

\* The success path: a new access token in a cookie, nothing else.
refreshGrant(i, seen, username) ==
    LET newAccessToken == generateAccessToken(username)
    IN  /\ resp' = [seen EXCEPT !.status = 200, !.sent = 1,
                                !.message = "Access token refreshed",
                                !.accessCookie = newAccessToken]
        /\ Keep(newAccessToken, kept.refreshToken)
        /\ UNCHANGED cmdq

\* refreshTokenReply verifying the token before it looks at the reply.
refreshTokenReplyVerifyFirst(i) ==
    /\ replyq[i] # <<>>
    /\ Head(replyq[i]).op = "sismember"
    /\ LET r == Head(replyq[i])
           seen == [Response("refresh", 0, "", r.tok)
                       EXCEPT !.storeErr = r.err, !.member = r.member,
                              !.verifyCalls = 1]
           v == jwtVerify(r.tok, JWT_REFRESH_TOKEN_SECRET, now)
       IN  IF v.err # ""
           THEN /\ resp' = [seen EXCEPT !.status = 403, !.sent = 1,
                                        !.message = "Token is invalid or expired"]
                /\ UNCHANGED <<cmdq, kept>>
           ELSE IF membershipFailed(r)
           THEN /\ resp' = [seen EXCEPT !.status = 403, !.sent = 1,
                                        !.message = "Invalid refresh token"]
                /\ UNCHANGED <<cmdq, kept>>
           ELSE refreshGrant(i, seen, v.payload.username)
    /\ replyq' = [replyq EXCEPT ![i] = Tail(@)]
    /\ UNCHANGED <<now, users, refreshTokens, loggedOut>>

refreshTokenReply(i) ==
    /\ replyq[i] # <<>>
    /\ Head(replyq[i]).op = "sismember"
    /\ LET r == Head(replyq[i])
           seen == [Response("refresh", 0, "", r.tok)
                       EXCEPT !.storeErr = r.err, !.member = r.member]
           verified == [seen EXCEPT !.verifyCalls = 1]
           v == jwtVerify(r.tok, JWT_REFRESH_TOKEN_SECRET, now)
       IN  IF membershipFailed(r)
           THEN /\ resp' = [seen EXCEPT !.status = 403, !.sent = 1,
                                        !.message = "Invalid refresh token"]
                /\ UNCHANGED <<cmdq, kept>>
           ELSE IF v.err # ""
           THEN /\ resp' = [verified EXCEPT !.status = 403, !.sent = 1,
                                            !.message = "Token is invalid or expired"]
                /\ UNCHANGED <<cmdq, kept>>
           ELSE refreshGrant(i, verified, v.payload.username)
    /\ replyq' = [replyq EXCEPT ![i] = Tail(@)]
    /\ UNCHANGED <<now, users, refreshTokens, loggedOut>>

(***************************************************************************)
(* POST /logout, up to the srem being written.  An absent cookie is sent   *)
(* as an argument all the same; it names no member of the set.             *)
(***************************************************************************)
logout(i, token) ==
    /\ Pending < MaxPending
    /\ RedisSend(i, "srem", IF Falsy(token) THEN EmptyCookie ELSE token)
    /\ resp' = NoResponse
    /\ UNCHANGED <<now, users, refreshTokens, replyq, kept, loggedOut>>

\* logoutFailed with the test of the sismember callback.
logoutFailedUnlessRemoved(r) == r.err \/ r.reply # 1

\* if (err)
logoutFailed(r) == r.err

\* The srem callback of logout.
\* logoutReply without the return after the error response: it goes on to
\* clear the cookies and to answer a second time.
logoutReplyNoReturn(i) ==
    /\ replyq[i] # <<>>
    /\ Head(replyq[i]).op = "srem"
    /\ LET r == Head(replyq[i])
           seen == [Response("logout", 0, "", r.tok)
                       EXCEPT !.storeErr = r.err, !.member = r.member]
       IN  /\ resp' = [seen EXCEPT !.status = IF logoutFailed(r) THEN 500 ELSE 200,
                                   !.message = IF logoutFailed(r) THEN "Error logging out"
                                               ELSE "Logged out successfully",
                                   !.detail = logoutFailed(r),
                                   !.sent = IF logoutFailed(r) THEN 2 ELSE 1,
                                   !.cleared = {"accessToken", "refreshToken"}]
           /\ loggedOut' = IF r.err THEN loggedOut ELSE loggedOut \cup {r.tok}
    /\ replyq' = [replyq EXCEPT ![i] = Tail(@)]
    /\ UNCHANGED <<now, users, refreshTokens, cmdq, kept>>

logoutReply(i) ==
    /\ replyq[i] # <<>>
    /\ Head(replyq[i]).op = "srem"
    /\ LET r == Head(replyq[i])
           seen == [Response("logout", 0, "", r.tok)
                       EXCEPT !.storeErr = r.err, !.member = r.member]
       IN  IF logoutFailed(r)
           THEN /\ resp' = [seen EXCEPT !.status = 500, !.sent = 1,
                                        !.message = "Error logging out",
                                        !.detail = TRUE]
                /\ UNCHANGED loggedOut
           ELSE /\ resp' = [seen EXCEPT !.status = 200, !.sent = 1,
                                        !.message = "Logged out successfully",
                                        !.cleared = {"accessToken", "refreshToken"}]
                /\ loggedOut' = IF r.reply = 1 THEN loggedOut \cup {r.tok} ELSE loggedOut
    /\ replyq' = [replyq EXCEPT ![i] = Tail(@)]
    /\ UNCHANGED <<now, users, refreshTokens, cmdq, kept>>

\* authenticateJWT asking the store whether the user still has a session.
authenticateJWTChecksStore(token) ==
    /\ LET v == jwtVerify(token, JWT_ACCESS_TOKEN_SECRET, now)
       IN  IF ~Falsy(token)
           THEN IF v.err # "" \/ ~\E t \in refreshTokens : t.username = v.payload.username
                THEN resp' = [Response("authenticateJWT", 403, "Forbidden", token)
                                 EXCEPT !.verifyCalls = 1]
                ELSE resp' = [Response("authenticateJWT", 0, "", token)
                                 EXCEPT !.user = v.payload, !.nextCalls = 1,
                                        !.verifyCalls = 1]
           ELSE resp' = Response("authenticateJWT", 401, "Unauthorized", token)
    /\ UNCHANGED <<now, users, refreshTokens, cmdq, replyq, kept, loggedOut>>

\* authenticateJWT without the return in front of the 403.
authenticateJWTNoReturn(token) ==
    /\ LET v == jwtVerify(token, JWT_ACCESS_TOKEN_SECRET, now)
       IN  IF ~Falsy(token)
           THEN IF v.err # ""
                THEN resp' = [Response("authenticateJWT", 403, "Forbidden", token)
                                 EXCEPT !.user = v.payload, !.nextCalls = 1,
                                        !.verifyCalls = 1]
                ELSE resp' = [Response("authenticateJWT", 0, "", token)
                                 EXCEPT !.user = v.payload, !.nextCalls = 1,
                                        !.verifyCalls = 1]
           ELSE resp' = Response("authenticateJWT", 401, "Unauthorized", token)
    /\ UNCHANGED <<now, users, refreshTokens, cmdq, replyq, kept, loggedOut>>

(***************************************************************************)
(* The middleware in front of every protected route.                       *)
(***************************************************************************)
authenticateJWT(token) ==
    /\ LET v == jwtVerify(token, JWT_ACCESS_TOKEN_SECRET, now)
       IN  IF ~Falsy(token)
           THEN IF v.err # ""
                THEN resp' = [Response("authenticateJWT", 403, "Forbidden", token)
                                 EXCEPT !.verifyCalls = 1]
                ELSE resp' = [Response("authenticateJWT", 0, "", token)
                                 EXCEPT !.user = v.payload, !.nextCalls = 1,
                                        !.verifyCalls = 1]
           ELSE resp' = Response("authenticateJWT", 401, "Unauthorized", token)
    /\ UNCHANGED <<now, users, refreshTokens, cmdq, replyq, kept, loggedOut>>

(***************************************************************************)
(* Redis executes the oldest command of a connection.  The reply of a sadd *)
(* resolves a promise nobody holds; the other replies go to the callback.  *)
(***************************************************************************)
RedisReply(cmd, err, reply) ==
    [op |-> cmd.op, tok |-> cmd.tok, err |-> err, reply |-> reply,
     member |-> cmd.tok \in refreshTokens]

RedisExec(i) ==
    /\ cmdq[i] # <<>>
    /\ LET cmd == Head(cmdq[i])
           n == IF cmd.tok \in refreshTokens THEN 1 ELSE 0
       IN  /\ refreshTokens' =
                  CASE cmd.op = "sadd" -> refreshTokens \cup {cmd.tok}
                    [] cmd.op = "srem" -> refreshTokens \ {cmd.tok}
                    [] OTHER -> refreshTokens
           /\ replyq' = IF cmd.op = "sadd" THEN replyq
                        ELSE [replyq EXCEPT ![i] = Append(@, RedisReply(cmd, FALSE, n))]
    /\ cmdq' = [cmdq EXCEPT ![i] = Tail(@)]
    /\ resp' = NoResponse
    /\ UNCHANGED <<now, users, kept, loggedOut>>

\* The command fails (connection lost, server error): no effect on the set.
RedisError(i) ==
    /\ cmdq[i] # <<>>
    /\ LET cmd == Head(cmdq[i])
       IN  replyq' = IF cmd.op = "sadd" THEN replyq
                     ELSE [replyq EXCEPT ![i] = Append(@, RedisReply(cmd, TRUE, 0))]
    /\ cmdq' = [cmdq EXCEPT ![i] = Tail(@)]
    /\ resp' = NoResponse
    /\ UNCHANGED <<now, users, refreshTokens, kept, loggedOut>>

\* A clock step of a store that drops the tokens that have expired.
TickExpiring ==
    /\ now < MaxTime
    /\ now' = now + 1
    /\ refreshTokens' = {t \in refreshTokens : now' < t.exp}
    /\ resp' = NoResponse
    /\ UNCHANGED <<users, cmdq, replyq, kept, loggedOut>>

Tick ==
    /\ now < MaxTime
    /\ now' = now + 1
    /\ resp' = NoResponse
    /\ UNCHANGED <<users, refreshTokens, cmdq, replyq, kept, loggedOut>>

\* The client sends a request once its previous one is answered; the load
\* balancer hands it to any instance.
Next ==
    /\ UNCHANGED <<scen, shop>>
    /\ \/ \E i \in Instances, u \in Usernames, p \in Passwords, dbOk \in BOOLEAN :
              ~Awaiting /\ login(i, u, p, dbOk)
       \/ \E i \in Instances, c \in Presentable : ~Awaiting /\ refreshToken(i, c)
       \/ \E i \in Instances : refreshTokenReply(i)
       \/ \E i \in Instances, c \in Presentable : ~Awaiting /\ logout(i, c)
       \/ \E i \in Instances : logoutReply(i)
       \/ \E c \in Presentable : ~Awaiting /\ authenticateJWT(c)
       \/ \E i \in Instances : RedisExec(i)
       \/ \E i \in Instances : RedisError(i)
       \/ Tick

Spec == Init /\ [][Next]_vars

(***************************************************************************)
(* What the scheduling guarantees: Node runs the callback of a reply that  *)
(* has arrived, and the clock goes on.  Nothing makes Redis take up a      *)
(* command, and no handler arms a timer for the reply it waits for.        *)
(***************************************************************************)
Fairness ==
    /\ \A i \in Instances :
          /\ WF_vars(refreshTokenReply(i) /\ UNCHANGED <<scen, shop>>)
          /\ WF_vars(logoutReply(i) /\ UNCHANGED <<scen, shop>>)
    /\ WF_vars(Tick /\ UNCHANGED <<scen, shop>>)

SpecLive == Init /\ [][Next]_vars /\ Fairness


(***************************************************************************)
(* Account operations.  register stores a new user (usernames are unique:  *)
(* saving a second user of the same name throws); updateUser re-hashes the *)
(* password of an existing user; deleteUser removes one.  updateUser and   *)
(* deleteUser also write the Redis key user:<id>, which is not the set     *)
(* "refreshTokens" and which no session handler reads.                      *)
(***************************************************************************)
register(username, password) ==
    /\ IF users[username] = NoUser
       THEN /\ users' = [users EXCEPT ![username] = bcryptHash(password)]
            /\ resp' = Response("register", 201, "User registered successfully", NoCookie)
       ELSE /\ resp' = [Response("register", 500, "Error registering user", NoCookie)
                           EXCEPT !.detail = TRUE]
            /\ UNCHANGED users
    /\ UNCHANGED <<now, refreshTokens, cmdq, replyq, kept, loggedOut>>

\* updateUser ending the user's sessions when the password changes.
updateUserRevoking(username, password) ==
    /\ IF users[username] = NoUser
       THEN /\ resp' = Response("updateUser", 404, "User not found", NoCookie)
            /\ UNCHANGED <<users, refreshTokens>>
       ELSE /\ users' = [users EXCEPT ![username] = bcryptHash(password)]
            /\ refreshTokens' = {t \in refreshTokens : t.username # username}
            /\ resp' = Response("updateUser", 200, "User updated successfully", NoCookie)
    /\ UNCHANGED <<now, cmdq, replyq, kept, loggedOut>>

updateUser(username, password) ==
    /\ IF users[username] = NoUser
       THEN /\ resp' = Response("updateUser", 404, "User not found", NoCookie)
            /\ UNCHANGED users
       ELSE /\ users' = [users EXCEPT ![username] = bcryptHash(password)]
            /\ resp' = Response("updateUser", 200, "User updated successfully", NoCookie)
    /\ UNCHANGED <<now, refreshTokens, cmdq, replyq, kept, loggedOut>>

\* deleteUser taking the user's refresh tokens out of the set as well.
deleteUserRevoking(username) ==
    /\ IF users[username] = NoUser
       THEN /\ resp' = Response("deleteUser", 404, "User not found", NoCookie)
            /\ UNCHANGED <<users, refreshTokens>>
       ELSE /\ users' = [users EXCEPT ![username] = NoUser]
            /\ refreshTokens' = {t \in refreshTokens : t.username # username}
            /\ resp' = Response("deleteUser", 200, "User deleted successfully", NoCookie)
    /\ UNCHANGED <<now, cmdq, replyq, kept, loggedOut>>

deleteUser(username) ==
    /\ IF users[username] = NoUser
       THEN /\ resp' = Response("deleteUser", 404, "User not found", NoCookie)
            /\ UNCHANGED users
       ELSE /\ users' = [users EXCEPT ![username] = NoUser]
            /\ resp' = Response("deleteUser", 200, "User deleted successfully", NoCookie)
    /\ UNCHANGED <<now, refreshTokens, cmdq, replyq, kept, loggedOut>>

(***************************************************************************)
(* Sessions with the account changing underneath: one server instance on a *)
(* healthy store and database, and the three account operations applied to *)
(* the account that has the sessions (deleted, registered again, its       *)
(* password changed).                                                      *)
(***************************************************************************)
Accounts == {"alice"}
Server == {"A"}

UsersNext ==
    /\ UNCHANGED <<scen, shop>>
    /\ \/ \E i \in Server, u \in Usernames, p \in Passwords :
              ~Awaiting /\ login(i, u, p, TRUE)
       \/ \E i \in Server, c \in Presentable : ~Awaiting /\ refreshToken(i, c)
       \/ \E i \in Server : refreshTokenReply(i)
       \/ \E i \in Server, c \in Presentable : ~Awaiting /\ logout(i, c)
       \/ \E i \in Server : logoutReply(i)
       \/ \E i \in Server : RedisExec(i)
       \/ \E c \in Presentable : ~Awaiting /\ authenticateJWT(c)
       \/ Tick
       \/ \E u \in Accounts, p \in Passwords : ~Awaiting /\ register(u, p)
       \/ \E u \in Accounts, p \in Passwords : ~Awaiting /\ updateUser(u, p)
       \/ \E u \in Accounts : ~Awaiting /\ deleteUser(u)

SpecUsers == Init /\ [][UsersNext]_vars

(***************************************************************************)
(* createOrder.  One step per await: Product.findById with the checks and  *)
(* the decrement of the document that follow it, product.save(), and       *)
(* newOrder.save() with the response.                                      *)
(***************************************************************************)
OrderAnswer(c, status, message) ==
    /\ out' = [Out("createOrder", status, message)
                  EXCEPT !.user = ordering[c].user, !.saved = ordering[c].saved]
    /\ ordering' = [ordering EXCEPT ![c] = Idle]

createOrder(c, user, cart) ==
    /\ ordering[c].pc = "idle"
    /\ orderSeq + Cardinality({d \in Calls : ordering[d].pc # "idle"}) < MaxOrders
    /\ IF user = NoUserId
       THEN /\ out' = Out("createOrder", 400, "User ID is required")
            /\ UNCHANGED ordering
       ELSE /\ ordering' = [ordering EXCEPT ![c] =
                   [pc |-> IF cart = <<>> THEN "order" ELSE "find",
                    user |-> user, cart |-> cart, k |-> 1, local |-> 0, saved |-> 0]]
            /\ out' = NoOut
    /\ UNCHANGED <<stock, orders, orderSeq, sold, cache, listing>>

\* await Product.findById(item.product), the two checks, product.stock -= quantity
findProduct(c) ==
    /\ ordering[c].pc = "find"
    /\ LET item == ordering[c].cart[ordering[c].k]
       IN  IF item.product \notin DOMAIN stock
           THEN OrderAnswer(c, 400, "Product not found for ID")
           ELSE IF stock[item.product] < item.quantity
           THEN OrderAnswer(c, 400, "Insufficient stock for product")
           ELSE /\ ordering' = [ordering EXCEPT ![c].pc = "save",
                                                ![c].local = stock[item.product] - item.quantity]
                /\ out' = NoOut
    /\ UNCHANGED <<stock, orders, orderSeq, sold, cache, listing>>

\* await product.save(): writes the stock of the document (a $set of the
\* value computed from what findById read), then the loop goes on.
saveProduct(c) ==
    /\ ordering[c].pc = "save"
    /\ LET call == ordering[c]
           item == call.cart[call.k]
       IN  IF item.product \notin DOMAIN stock
           THEN /\ OrderAnswer(c, 500, "Error creating order")
                /\ UNCHANGED stock
           ELSE /\ stock' = [stock EXCEPT ![item.product] = call.local]
                /\ ordering' = [ordering EXCEPT
                       ![c].saved = call.saved + 1,
                       ![c].k = call.k + 1,
                       ![c].pc = IF call.k < Len(call.cart) THEN "find" ELSE "order"]
                /\ out' = NoOut
    /\ UNCHANGED <<orders, orderSeq, sold, cache, listing>>

Quantity(cart, p) ==
    LET RECURSIVE Sum(_)
        Sum(k) == IF k = 0 THEN 0
                  ELSE (IF cart[k].product = p THEN cart[k].quantity ELSE 0) + Sum(k - 1)
    IN  Sum(Len(cart))

\* await newOrder.save(), redisClient.del(ORDER_CACHE_KEY), the response.
\* fate: the order is saved, fails validation (a required field is missing
\* from the body), or the database fails.
saveOrder(c, fate) ==
    /\ ordering[c].pc = "order"
    /\ IF fate = "saved"
       THEN /\ orderSeq' = orderSeq + 1
            /\ orders' = orders \cup {[id |-> orderSeq', user |-> ordering[c].user,
                                       products |-> ordering[c].cart]}
            /\ sold' = [p \in Products |-> sold[p] + Quantity(ordering[c].cart, p)]
            /\ cache' = [cache EXCEPT ![ORDER_CACHE_KEY] = {}]
            /\ OrderAnswer(c, 201, "Order created successfully")
       ELSE /\ IF fate = "invalid"
               THEN OrderAnswer(c, 400, "Validation error")
               ELSE OrderAnswer(c, 500, "Error creating order")
            /\ UNCHANGED <<orders, orderSeq, sold, cache>>
    /\ UNCHANGED <<stock, listing>>

OrderIds == 1..MaxOrders

updateOrder(id, cart) ==
    /\ IF \E o \in orders : o.id = id
       THEN /\ orders' = {IF o.id = id THEN [o EXCEPT !.products = cart] ELSE o : o \in orders}
            /\ cache' = [cache EXCEPT ![ORDER_CACHE_KEY] = {}]
            /\ out' = [Out("updateOrder", 200, "Order updated successfully")
                          EXCEPT !.user = (CHOOSE o \in orders : o.id = id).user]
       ELSE /\ out' = Out("updateOrder", 404, "Order not found")
            /\ UNCHANGED <<orders, cache>>
    /\ UNCHANGED <<stock, orderSeq, sold, ordering, listing>>

deleteOrder(id) ==
    /\ IF \E o \in orders : o.id = id
       THEN /\ orders' = {o \in orders : o.id # id}
            /\ cache' = [cache EXCEPT ![ORDER_CACHE_KEY] = {}]
            /\ out' = [Out("deleteOrder", 200, "Order deleted successfully")
                          EXCEPT !.user = (CHOOSE o \in orders : o.id = id).user]
       ELSE /\ out' = Out("deleteOrder", 404, "Order not found")
            /\ UNCHANGED <<orders, cache>>
    /\ UNCHANGED <<stock, orderSeq, sold, ordering, listing>>

getOrders ==
    /\ IF cache[ORDER_CACHE_KEY] # {}
       THEN /\ out' = [Out("getOrders", 200, "") EXCEPT !.list = cache[ORDER_CACHE_KEY]]
            /\ UNCHANGED cache
       ELSE /\ cache' = [cache EXCEPT ![ORDER_CACHE_KEY] = {orders}]
            /\ out' = [Out("getOrders", 200, "") EXCEPT !.list = {orders}]
    /\ UNCHANGED <<stock, orders, orderSeq, sold, ordering, listing>>

OrdersOf(userId) == {o \in orders : o.user = userId}

getOrdersByUserId(userId) ==
    /\ LET answer == [Out("getOrdersByUserId", 200, "") EXCEPT !.user = userId]
       IN  IF cache[UserKey(userId)] # {}
           THEN /\ out' = [answer EXCEPT !.list = cache[UserKey(userId)]]
                /\ UNCHANGED cache
           ELSE IF OrdersOf(userId) = {}
           THEN /\ out' = [answer EXCEPT !.status = 404,
                                         !.message = "No orders found for this user"]
                /\ UNCHANGED cache
           ELSE /\ cache' = [cache EXCEPT ![UserKey(userId)] = {OrdersOf(userId)}]
                /\ out' = [answer EXCEPT !.list = {OrdersOf(userId)}]
    /\ UNCHANGED <<stock, orders, orderSeq, sold, ordering, listing>>

\* The "EX", 60 * 60 of the cached lists running out.
Expire(key) ==
    /\ cache[key] # {}
    /\ cache' = [cache EXCEPT ![key] = {}]
    /\ out' = NoOut
    /\ UNCHANGED <<stock, orders, orderSeq, sold, ordering, listing>>

OrderFates == {"saved", "invalid", "dbError"}

OrdersNext ==
    /\ UNCHANGED session
    /\ \/ \E c \in Calls, u \in UserIds \cup {NoUserId}, cart \in Carts : createOrder(c, u, cart)
       \/ \E c \in Calls : findProduct(c)
       \/ \E c \in Calls : saveProduct(c)
       \/ \E c \in Calls, fate \in OrderFates : saveOrder(c, fate)
       \/ \E id \in OrderIds, cart \in Carts : updateOrder(id, cart)
       \/ \E id \in OrderIds : deleteOrder(id)
       \/ getOrders
       \/ \E u \in UserIds : getOrdersByUserId(u)
       \/ \E key \in CacheKeys : Expire(key)

SpecOrders == Init /\ [][OrdersNext]_vars

(***************************************************************************)
(* Products.  getProducts in its three steps: the cache lookup, the        *)
(* Product.find() on a miss, and the redisClient.set with the response.    *)
(* The three writes are taken in one step each, the database write         *)
(* together with the redisClient.del that follows it.                      *)
(***************************************************************************)
getProducts(c) ==
    /\ listing[c].pc = "idle"
    /\ IF cache[PRODUCT_CACHE_KEY] # {}
       THEN /\ out' = [Out("getProducts", 200, "") EXCEPT !.list = cache[PRODUCT_CACHE_KEY]]
            /\ UNCHANGED listing
       ELSE /\ listing' = [listing EXCEPT ![c].pc = "find"]
            /\ out' = NoOut
    /\ UNCHANGED <<stock, orders, orderSeq, sold, cache, ordering>>

\* await Product.find()
findProducts(c) ==
    /\ listing[c].pc = "find"
    /\ listing' = [listing EXCEPT ![c] = [pc |-> "set", found |-> {stock}]]
    /\ out' = NoOut
    /\ UNCHANGED <<stock, orders, orderSeq, sold, cache, ordering>>

\* redisClient.set(PRODUCT_CACHE_KEY, ...) and the response
cacheProducts(c) ==
    /\ listing[c].pc = "set"
    /\ cache' = [cache EXCEPT ![PRODUCT_CACHE_KEY] = listing[c].found]
    /\ out' = [Out("getProducts", 200, "") EXCEPT !.list = listing[c].found]
    /\ listing' = [listing EXCEPT ![c] = NotListing]
    /\ UNCHANGED <<stock, orders, orderSeq, sold, ordering>>

createProduct(id, s) ==
    /\ id \notin DOMAIN stock
    /\ stock' = [p \in DOMAIN stock \cup {id} |-> IF p = id THEN s ELSE stock[p]]
    /\ cache' = [cache EXCEPT ![PRODUCT_CACHE_KEY] = {}]
    /\ out' = Out("createProduct", 201, "Product created successfully")
    /\ UNCHANGED <<orders, orderSeq, sold, ordering, listing>>

updateProduct(id, s) ==
    /\ IF id \in DOMAIN stock
       THEN /\ stock' = [stock EXCEPT ![id] = s]
            /\ cache' = [cache EXCEPT ![PRODUCT_CACHE_KEY] = {}]
            /\ out' = Out("updateProduct", 200, "Product updated successfully")
       ELSE /\ out' = Out("updateProduct", 404, "Product not found")
            /\ UNCHANGED <<stock, cache>>
    /\ UNCHANGED <<orders, orderSeq, sold, ordering, listing>>

deleteProduct(id) ==
    /\ IF id \in DOMAIN stock
       THEN /\ stock' = [p \in DOMAIN stock \ {id} |-> stock[p]]
            /\ cache' = [cache EXCEPT ![PRODUCT_CACHE_KEY] = {}]
            /\ out' = Out("deleteProduct", 200, "Product deleted successfully")
       ELSE /\ out' = Out("deleteProduct", 404, "Product not found")
            /\ UNCHANGED <<stock, cache>>
    /\ UNCHANGED <<orders, orderSeq, sold, ordering, listing>>

ProductsNext ==
    /\ UNCHANGED session
    /\ \/ \E c \in Calls : getProducts(c)
       \/ \E c \in Calls : findProducts(c)
       \/ \E c \in Calls : cacheProducts(c)
       \/ \E id \in Products, s \in 0..MaxStock : createProduct(id, s)
       \/ \E id \in Products, s \in 0..MaxStock : updateProduct(id, s)
       \/ \E id \in Products : deleteProduct(id)
       \/ Expire(PRODUCT_CACHE_KEY)

SpecProducts == Init /\ [][ProductsNext]_vars


(***************************************************************************)
(* The session scenario of the specification's testable properties: one    *)
(* client logs in as alice, refreshes, logs out and refreshes again, each  *)
(* call made when the previous one is answered, on whichever instance the  *)
(* load balancer picks, against a healthy store and within the lifetime of *)
(* the refresh token.  scen records what the client sees after each call   *)
(* and whether its refresh token is in the store at that moment.           *)
(***************************************************************************)
Observed(token) == [resp |-> resp', inStore |-> token \in refreshTokens']

ScenToken == scen[1].resp.refreshCookie

ScenLogin ==
    /\ Len(scen) = 0
    /\ \E i \in Instances : login(i, "alice", "correct", TRUE)
    /\ scen' = <<Observed(resp'.refreshCookie)>>

ScenRefresh ==
    /\ Len(scen) \in {1, 3}
    /\ ~Awaiting
    /\ \E i \in Instances : refreshToken(i, ScenToken)
    /\ UNCHANGED scen

ScenRefreshReply ==
    /\ \E i \in Instances : refreshTokenReply(i)
    /\ scen' = Append(scen, Observed(ScenToken))

ScenLogout ==
    /\ Len(scen) = 2
    /\ ~Awaiting
    /\ \E i \in Instances : logout(i, ScenToken)
    /\ UNCHANGED scen

ScenLogoutReply ==
    /\ \E i \in Instances : logoutReply(i)
    /\ scen' = Append(scen, Observed(ScenToken))

ScenRedis ==
    /\ \E i \in Instances : RedisExec(i)
    /\ UNCHANGED scen

ScenTick ==
    /\ now + 1 < JWT_REFRESH_TOKEN_EXPIRATION
    /\ Tick
    /\ UNCHANGED scen

ScenarioNext ==
    /\ UNCHANGED shop
    /\ \/ ScenLogin
       \/ ScenRefresh
       \/ ScenRefreshReply
       \/ ScenLogout
       \/ ScenLogoutReply
       \/ ScenRedis
       \/ ScenTick

SpecScenario == Init /\ [][ScenarioNext]_vars

(***************************************************************************)
(* What the caller of an endpoint can observe of a response.               *)
(***************************************************************************)
Visible(r) ==
    [status |-> r.status, message |-> r.message, accessCookie |-> r.accessCookie,
     refreshCookie |-> r.refreshCookie, cleared |-> r.cleared, detail |-> r.detail]

BothCookies == {"accessToken", "refreshToken"}

\* The three conditions of a refresh, for the token of the response just sent.
SignatureValid(token) == token.sig = JWT_REFRESH_TOKEN_SECRET
Unexpired(token) == now < token.exp

(***************************************************************************)
(* C1.  Every accepted login returns a refresh token that is a member of   *)
(* the set "refreshTokens" at the moment the login response is sent.        *)
(* The code writes the sadd and answers without waiting for it.            *)
(***************************************************************************)
C1_LoginTokenRegistered ==
    (resp.op = "login" /\ resp.status = 200) => resp.refreshCookie \in refreshTokens

(***************************************************************************)
(* C2.  As claimed: refresh(t) succeeds if and only if t has a valid       *)
(* signature under the refresh secret, is unexpired and is a member of the *)
(* set.  Refuted by a membership query that fails with an error.           *)
(***************************************************************************)
C2_RefreshIffThreeChecks ==
    (resp.op = "refresh" /\ ~Falsy(resp.presented)) =>
        (resp.status = 200 <=>
            (SignatureValid(resp.presented) /\ Unexpired(resp.presented) /\ resp.member))

(***************************************************************************)
(* C2, amended.  Of a refresh whose cookie is present: it succeeds (200    *)
(* and a new accessToken cookie for the token's user) if and only if the   *)
(* store answered the membership query without error, t was a member when  *)
(* the query ran, and t has a valid signature and is unexpired when the    *)
(* answer is handled; each of the three alone, when false, makes it fail.  *)
(***************************************************************************)
C2_RefreshIffChecksAndStoreAnswers ==
    (resp.op = "refresh" /\ ~Falsy(resp.presented)) =>
        /\ resp.status = 200 <=>
              /\ ~resp.storeErr
              /\ resp.member
              /\ SignatureValid(resp.presented)
              /\ Unexpired(resp.presented)
        /\ resp.status = 200 =>
              resp.accessCookie =
                  jwtSign(resp.presented.username, JWT_ACCESS_TOKEN_SECRET,
                          JWT_ACCESS_TOKEN_EXPIRATION, now)
        /\ resp.status # 200 => resp.accessCookie = NoCookie

\* A member with a valid signature is refused for being expired alone.
C2_Witness ==
    /\ resp.op = "refresh"
    /\ resp.status = 403
    /\ resp.member /\ ~resp.storeErr
    /\ SignatureValid(resp.presented)
    /\ ~Unexpired(resp.presented)

(***************************************************************************)
(* C3.  Once a successful logout(t) has removed t from the set, no later   *)
(* refresh(t) succeeds.  (A request is sent only when the previous one is  *)
(* answered, so a refresh answered here was called after the logout.)      *)
(***************************************************************************)
C3_NoRefreshAfterLogout ==
    (resp.op = "refresh" /\ resp.status = 200) => resp.presented \notin loggedOut

(***************************************************************************)
(* C4.  The session scenario, in order: login answers 200 with both        *)
(* cookies and the refresh token in the store; refresh answers 200 with a  *)
(* new access cookie only and the token still in the store; logout answers *)
(* 200, clears both cookies and the token is gone; the second refresh is   *)
(* refused with 403 as revoked.                                            *)
(***************************************************************************)
C4_SessionScenario ==
    /\ Len(scen) >= 1 =>
          /\ scen[1].resp.status = 200
          /\ scen[1].resp.accessCookie # NoCookie
          /\ scen[1].resp.refreshCookie # NoCookie
          /\ scen[1].inStore
    /\ Len(scen) >= 2 =>
          /\ scen[2].resp.status = 200
          /\ scen[2].resp.accessCookie # NoCookie
          /\ scen[2].resp.refreshCookie = NoCookie
          /\ scen[2].inStore
    /\ Len(scen) >= 3 =>
          /\ scen[3].resp.status = 200
          /\ scen[3].resp.cleared = BothCookies
          /\ ~scen[3].inStore
    /\ Len(scen) >= 4 =>
          /\ scen[4].resp.status = 403
          /\ scen[4].resp.message = "Invalid refresh token"

LogoutOk ==
    [status |-> 200, message |-> "Logged out successfully", accessCookie |-> NoCookie,
     refreshCookie |-> NoCookie, cleared |-> BothCookies, detail |-> FALSE]

C6_RefreshDoesNotRotate ==
    [][/\ resp'.op = "none" =>
            \A i \in Instances :
                Len(cmdq'[i]) > Len(cmdq[i]) =>
                    \A c \in Presentable :
                        refreshToken(i, c) =>
                            /\ refreshTokens' = refreshTokens
                            /\ cmdq' = [cmdq EXCEPT ![i] =
                                          Append(@, [op |-> "sismember", tok |-> c])]
       /\ resp'.op = "refresh" =>
            /\ refreshTokens' = refreshTokens /\ cmdq' = cmdq
            /\ resp'.refreshCookie = NoCookie /\ resp'.cleared = {}
            /\ resp'.status # 200 => resp'.accessCookie = NoCookie /\ kept' = kept
            /\ resp'.status = 200 =>
                  /\ resp'.accessCookie.sig = JWT_ACCESS_TOKEN_SECRET
                  /\ kept'.refreshToken = kept.refreshToken]_vars

\* A successful refresh whose token is still in the set afterwards.
C6_Witness ==
    /\ resp.op = "refresh"
    /\ resp.status = 200
    /\ resp.presented \in refreshTokens
    /\ resp.refreshCookie = NoCookie

InvalidCredentials ==
    [status |-> 401, message |-> "Invalid credentials", accessCookie |-> NoCookie,
     refreshCookie |-> NoCookie, cleared |-> {}, detail |-> FALSE]

C8_StoreErrorIsServerError ==
    (resp.op = "refresh" /\ resp.storeErr) =>
        (resp.status >= 500 /\ resp.message # "Invalid refresh token")

(***************************************************************************)
(* C9.  authenticateJWT never reads the store: it writes no command and    *)
(* changes nothing, and an access token with a valid signature that is not *)
(* expired is let through in every state, whatever the set holds, also     *)
(* after a logout removed the session's refresh token.                     *)
(***************************************************************************)
C9_AccessTokenNotRevocable ==
    [][resp'.op = "authenticateJWT" =>
          \A c \in Presentable :
              authenticateJWT(c) =>
                  /\ UNCHANGED <<refreshTokens, cmdq, replyq>>
                  /\ (c.sig = JWT_ACCESS_TOKEN_SECRET /\ now < c.exp) =>
                        /\ resp'.nextCalls = 1
                        /\ resp'.status = 0
                        /\ resp'.user = c]_vars

\* The access token of a session is accepted after that session's logout.
C9_Witness ==
    /\ resp.op = "authenticateJWT"
    /\ resp.nextCalls = 1
    /\ refreshTokens = {}
    /\ \E t \in loggedOut : t.username = resp.user.username /\ t.iat = resp.user.iat

(***************************************************************************)
(* C10.  Every request through authenticateJWT ends in exactly one of      *)
(* three ways: without accessToken cookie 401 and no next(); with a token  *)
(* that fails the signature or expiry check 403 and no next(); with a      *)
(* token that verifies, its payload as req.user, one call of next() and no *)
(* response from the middleware.                                           *)
(***************************************************************************)
C10_AuthenticateOutcomes ==
    resp.op = "authenticateJWT" =>
        LET t == resp.presented
            verifies == t.sig = JWT_ACCESS_TOKEN_SECRET /\ now < t.exp
        IN  /\ Falsy(t) =>
                  /\ resp.status = 401 /\ resp.message = "Unauthorized"
                  /\ resp.nextCalls = 0 /\ resp.user = NoCookie
            /\ (~Falsy(t) /\ ~verifies) =>
                  /\ resp.status = 403 /\ resp.message = "Forbidden"
                  /\ resp.nextCalls = 0 /\ resp.user = NoCookie
            /\ (~Falsy(t) /\ verifies) =>
                  /\ resp.status = 0
                  /\ resp.nextCalls = 1 /\ resp.user = t

\* An access token is turned away for being expired.
C10_Witness ==
    /\ resp.op = "authenticateJWT"
    /\ resp.status = 403
    /\ resp.presented.sig = JWT_ACCESS_TOKEN_SECRET
    /\ now >= resp.presented.exp

(***************************************************************************)
(* C11.  A refresh whose refreshToken cookie is absent or empty is         *)
(* answered 401 "Token is required" at once: no command was written to the *)
(* store for it (nothing is outstanding when the answer is sent),          *)
(* jwt.verify was not called and no cookie is set or cleared.              *)
(***************************************************************************)
C11_MissingTokenShortCircuits ==
    (resp.op = "refresh" /\ Falsy(resp.presented)) =>
        /\ resp.status = 401 /\ resp.message = "Token is required"
        /\ ~Awaiting
        /\ ~resp.storeErr /\ ~resp.member
        /\ resp.verifyCalls = 0
        /\ resp.accessCookie = NoCookie /\ resp.refreshCookie = NoCookie
        /\ resp.cleared = {}

\* A refresh with an empty cookie value is turned away.
C11_Witness ==
    /\ resp.op = "refresh"
    /\ resp.presented = EmptyCookie
    /\ resp.status = 401

TokenRevoked == "Invalid refresh token"
TokenInvalid == "Token is invalid or expired"

(***************************************************************************)
(* C12.  As claimed: a token that is in the set but has a bad signature or *)
(* is expired yields TokenInvalid.  Refuted when the membership query      *)
(* itself fails: the expired member is then answered as TokenRevoked.      *)
(***************************************************************************)
C12_MemberWithBadTokenIsInvalid ==
    (/\ resp.op = "refresh" /\ ~Falsy(resp.presented)
     /\ resp.member
     /\ ~(SignatureValid(resp.presented) /\ Unexpired(resp.presented))) =>
        (resp.status = 403 /\ resp.message = TokenInvalid)

(***************************************************************************)
(* C12, amended.  When the store answers the membership query without      *)
(* error, refresh checks membership first and stops at the first failure:  *)
(* a token that is not in the set yields TokenRevoked (403) whatever its   *)
(* signature and jwt.verify is not called for it; a token that is in the   *)
(* set but has a bad signature or is expired yields TokenInvalid (403)     *)
(* after one call of jwt.verify; on neither path is a cookie set.          *)
(***************************************************************************)
C12_MembershipBeforeSignature ==
    (resp.op = "refresh" /\ ~Falsy(resp.presented) /\ ~resp.storeErr) =>
        /\ ~resp.member =>
              /\ resp.status = 403 /\ resp.message = TokenRevoked
              /\ resp.verifyCalls = 0
        /\ (resp.member /\ ~(SignatureValid(resp.presented) /\ Unexpired(resp.presented))) =>
              /\ resp.status = 403 /\ resp.message = TokenInvalid
              /\ resp.verifyCalls = 1
        /\ resp.status = 403 =>
              /\ resp.accessCookie = NoCookie /\ resp.refreshCookie = NoCookie
              /\ resp.cleared = {}

\* A token with a valid signature and unexpired, not in the set: TokenRevoked.
C12_Witness ==
    /\ resp.op = "refresh"
    /\ ~resp.storeErr /\ ~resp.member
    /\ SignatureValid(resp.presented) /\ Unexpired(resp.presented)
    /\ resp.message = TokenRevoked
    /\ resp.verifyCalls = 0

(***************************************************************************)
(* C13.  For every identity, the token of generateAccessToken verifies     *)
(* under the access secret and yields that identity, and fails under the   *)
(* refresh secret; a refresh token in the accessToken cookie is rejected   *)
(* by authenticateJWT, and an access token in the refreshToken cookie      *)
(* never makes a refresh succeed.                                          *)
(***************************************************************************)
C13_TokenKindsNotInterchangeable ==
    /\ \A id \in Usernames :
          LET t == generateAccessToken(id)
          IN  /\ jwtVerify(t, JWT_ACCESS_TOKEN_SECRET, now).err = ""
              /\ jwtVerify(t, JWT_ACCESS_TOKEN_SECRET, now).payload.username = id
              /\ jwtVerify(t, JWT_REFRESH_TOKEN_SECRET, now).err # ""
    /\ (resp.op = "authenticateJWT" /\ resp.presented.sig = JWT_REFRESH_TOKEN_SECRET) =>
          (resp.status = 403 /\ resp.nextCalls = 0 /\ resp.user = NoCookie)
    /\ (resp.op = "refresh" /\ resp.presented.sig = JWT_ACCESS_TOKEN_SECRET) =>
          (resp.status = 403 /\ resp.accessCookie = NoCookie)

\* A refresh token that is in the set and unexpired, turned away by authenticateJWT.
C13_Witness ==
    /\ resp.op = "authenticateJWT"
    /\ resp.presented.sig = JWT_REFRESH_TOKEN_SECRET
    /\ resp.presented \in refreshTokens
    /\ now < resp.presented.exp
    /\ resp.status = 403

(***************************************************************************)
(* C14.  Expiry is an inclusive boundary.  An access token issued at T     *)
(* with lifetime L passes authenticateJWT at every time before T + L and   *)
(* is rejected at T + L and later; a refresh token that the store reports  *)
(* as a member refreshes at every time before T + L and is rejected as     *)
(* TokenInvalid at T + L and later.                                        *)
(***************************************************************************)
C14_ExpiryBoundaryInclusive ==
    /\ (resp.op = "authenticateJWT" /\ resp.presented.sig = JWT_ACCESS_TOKEN_SECRET) =>
          LET T == resp.presented.iat
              L == JWT_ACCESS_TOKEN_EXPIRATION
          IN  /\ resp.presented.exp = T + L
              /\ now < T + L => (resp.nextCalls = 1 /\ resp.status = 0)
              /\ now >= T + L => (resp.nextCalls = 0 /\ resp.status = 403)
    /\ (/\ resp.op = "refresh" /\ resp.presented.sig = JWT_REFRESH_TOKEN_SECRET
        /\ resp.member /\ ~resp.storeErr) =>
          LET T == resp.presented.iat
              L == JWT_REFRESH_TOKEN_EXPIRATION
          IN  /\ resp.presented.exp = T + L
              /\ now < T + L => resp.status = 200
              /\ now >= T + L => (resp.status = 403 /\ resp.message = TokenInvalid)

\* An access token presented in the very second of its expiry.
C14_Witness ==
    /\ resp.op = "authenticateJWT"
    /\ resp.presented.sig = JWT_ACCESS_TOKEN_SECRET
    /\ now = resp.presented.iat + JWT_ACCESS_TOKEN_EXPIRATION
    /\ resp.status = 403

(***************************************************************************)
(* C15.  Every refresh call and every logout call is eventually answered,  *)
(* also when the store never answers.  The handlers set no timeout for the *)
(* store call: a request whose command Redis never takes up waits forever. *)
(***************************************************************************)
C15_EveryCallAnswered == Awaiting ~> ~Awaiting

\* An add of token t is written to a connection and not yet executed.
AddInFlight(t) ==
    \E i \in Instances : \E k \in 1..Len(cmdq[i]) : cmdq[i][k] = [op |-> "sadd", tok |-> t]

(***************************************************************************)
(* C16.  With several instances on one store, the add of the login that    *)
(* issued t takes effect before any remove of t: once logout(t) has        *)
(* answered with success, t is not in the set and no add of t is still on  *)
(* its way to put it there.  In the code the add may still be queued on    *)
(* the connection of the instance that handled the login.                  *)
(***************************************************************************)
C16_AddBeforeRemove ==
    (resp.op = "logout" /\ resp.status = 200) =>
        (resp.presented \notin refreshTokens /\ ~AddInFlight(resp.presented))

(***************************************************************************)
(* C17.  The outcome of a refresh does not depend on the instance that     *)
(* handles it: a token that login has returned, with a valid signature,    *)
(* unexpired and not logged out, refreshes on any instance whenever the    *)
(* store answers, and a token that a logout removed refreshes on none.     *)
(* In the code the instance that issued the token asks behind its own add, *)
(* another instance may ask before that add has run.                       *)
(***************************************************************************)
C17_SameOutcomeOnEveryInstance ==
    (resp.op = "refresh" /\ ~resp.storeErr /\ resp.presented = kept.refreshToken) =>
        /\ (/\ SignatureValid(resp.presented) /\ Unexpired(resp.presented)
            /\ resp.presented \notin loggedOut) => resp.status = 200
        /\ resp.presented \in loggedOut => resp.status = 403

(***************************************************************************)
(* C18.  When the srem of a logout fails with an error, the answer is a    *)
(* 5xx with a generic message and without the error itself, and clears no  *)
(* cookie.  The code puts the error object into the body.                  *)
(***************************************************************************)
C18_LogoutStoreErrorIsGeneric ==
    (resp.op = "logout" /\ resp.storeErr) =>
        /\ resp.status >= 500
        /\ ~resp.detail
        /\ resp.cleared = {}

\* The newest command written to the connection of instance i.
Newest(q) == q[Len(q)]

\* A string that generateRefreshToken has made, now or earlier.
MintedRefreshToken(t) ==
    /\ t.sig = JWT_REFRESH_TOKEN_SECRET
    /\ t.username \in Usernames
    /\ t.iat <= now
    /\ t.exp = t.iat + JWT_REFRESH_TOKEN_EXPIRATION

(***************************************************************************)
(* C19.  Minting an access token has no effect on the set or on the        *)
(* connection; minting a refresh token writes the sadd of exactly that     *)
(* string.  Every response that hands out a refresh token is a login whose *)
(* sadd of that token has just been written; every sadd written is the one *)
(* of the token being returned, minted in that call; and the set grows     *)
(* only when Redis executes such a sadd, by that one string.               *)
(***************************************************************************)
C19_MintingSideEffects ==
    /\ [](/\ resp.refreshCookie # NoCookie =>
                /\ resp.op = "login" /\ resp.status = 200
                /\ \E i \in Instances :
                      /\ cmdq[i] # <<>>
                      /\ Newest(cmdq[i]) = [op |-> "sadd", tok |-> resp.refreshCookie]
          /\ \A i \in Instances : \A k \in 1..Len(cmdq[i]) :
                cmdq[i][k].op = "sadd" => MintedRefreshToken(cmdq[i][k].tok)
          /\ \A t \in refreshTokens : MintedRefreshToken(t))
    /\ [][/\ \A i \in Instances :
                (Len(cmdq'[i]) > Len(cmdq[i]) /\ Newest(cmdq'[i]).op = "sadd") =>
                    /\ resp'.op = "login"
                    /\ resp'.refreshCookie = Newest(cmdq'[i]).tok
                    /\ Newest(cmdq'[i]).tok = generateRefreshToken(resp'.identity)
          /\ resp'.accessCookie # NoCookie =>
                /\ refreshTokens' = refreshTokens
                /\ resp'.op = "refresh" => cmdq' = cmdq
                /\ resp'.op = "login" =>
                      \E i \in Instances :
                          cmdq' = [cmdq EXCEPT ![i] =
                                      Append(@, [op |-> "sadd", tok |-> resp'.refreshCookie])]
          /\ refreshTokens' \ refreshTokens # {} =>
                \E i \in Instances :
                    /\ cmdq[i] # <<>>
                    /\ Head(cmdq[i]).op = "sadd"
                    /\ refreshTokens' = refreshTokens \cup {Head(cmdq[i]).tok}]_vars

\* A login has answered and the sadd of its refresh token is on the connection.
C19_Witness ==
    /\ resp.op = "login"
    /\ resp.status = 200
    /\ AddInFlight(resp.refreshCookie)
    /\ resp.refreshCookie \notin refreshTokens

(***************************************************************************)
(* C20.  Identity is preserved through the session: both tokens of an      *)
(* accepted login carry the username that logged in, and the access token  *)
(* of every successful refresh carries the username of the refresh token   *)
(* presented, so the tokens a client holds always name one account.        *)
(***************************************************************************)
C20_IdentityPreserved ==
    /\ (resp.op = "login" /\ resp.status = 200) =>
          /\ users[resp.identity] # NoUser
          /\ resp.accessCookie.username = resp.identity
          /\ resp.refreshCookie.username = resp.identity
    /\ (resp.op = "refresh" /\ resp.status = 200) =>
          /\ resp.accessCookie.sig = JWT_ACCESS_TOKEN_SECRET
          /\ resp.accessCookie.username = resp.presented.username
          /\ kept.accessToken = resp.accessCookie
    /\ kept.accessToken # NoCookie =>
          kept.accessToken.username = kept.refreshToken.username

\* A refresh in a later second than the login: the new access token names alice.
C20_Witness ==
    /\ resp.op = "refresh"
    /\ resp.status = 200
    /\ resp.accessCookie.iat > resp.presented.iat
    /\ resp.accessCookie.username = "alice"

(***************************************************************************)
(* C21.  A failed store add is never a silent success: when the sadd of a  *)
(* refresh token fails, login has not answered 200 with that token, so no  *)
(* client holds it.  In the code login has answered before Redis even      *)
(* takes up the sadd, and nothing looks at the sadd's outcome.             *)
(***************************************************************************)
C21_NoSilentAddFailure ==
    [][\A i \in Instances :
          (cmdq[i] # <<>> /\ Head(cmdq[i]).op = "sadd" /\ RedisError(i)) =>
              Head(cmdq[i]).tok # kept.refreshToken]_vars

AccountOps == {"register", "updateUser", "deleteUser"}

(***************************************************************************)
(* C22.  The set changes only through login and logout: it changes only    *)
(* when Redis executes the sadd of a minted refresh token, which adds that *)
(* one string, or an srem, which removes that one string and leaves every  *)
(* other member, other tokens of the same user included; the only sadd     *)
(* written is the one of the token a login returns, every srem written     *)
(* names the cookie a logout presented; refresh, the protected-resource    *)
(* check, register, updateUser, deleteUser and failed logins write no      *)
(* command and leave the set as it was.                                    *)
(***************************************************************************)
C22_SetChangesOnlyByLoginAndLogout ==
    [][/\ refreshTokens' # refreshTokens =>
              \E i \in Instances :
                  /\ cmdq[i] # <<>>
                  /\ cmdq' = [cmdq EXCEPT ![i] = Tail(@)]
                  /\ LET c == Head(cmdq[i])
                     IN  \/ /\ c.op = "sadd" /\ MintedRefreshToken(c.tok)
                            /\ refreshTokens' = refreshTokens \cup {c.tok}
                         \/ /\ c.op = "srem"
                            /\ refreshTokens' = refreshTokens \ {c.tok}
       /\ \A i \in Instances :
              Len(cmdq'[i]) > Len(cmdq[i]) =>
                  LET c == Newest(cmdq'[i])
                  IN  /\ refreshTokens' = refreshTokens
                      /\ c.op = "sadd" =>
                             (resp'.op = "login" /\ resp'.refreshCookie = c.tok)
                      /\ c.op = "srem" =>
                             \E t \in Presentable :
                                 c.tok = IF Falsy(t) THEN EmptyCookie ELSE t
       /\ (\/ resp'.op \in AccountOps \cup {"refresh", "authenticateJWT"}
           \/ resp'.op = "login" /\ resp'.status # 200) =>
              (refreshTokens' = refreshTokens /\ cmdq' = cmdq)]_vars

\* A logout has removed one session of alice and another one is still in the set.
C22_Witness ==
    /\ resp.op = "logout"
    /\ resp.status = 200
    /\ resp.presented \in loggedOut
    /\ \E t \in refreshTokens :
          t # resp.presented /\ t.username = resp.presented.username

(***************************************************************************)
(* C24.  refresh never consults the Credential Store and no account        *)
(* operation touches the set: whether a refresh succeeds is decided by     *)
(* membership, signature and expiry alone, whatever the user record is by  *)
(* then, and the access token it mints names the username in the refresh   *)
(* token; register, updateUser and deleteUser write no command and leave   *)
(* the set as it was.  So a token issued before deleteUser or a password   *)
(* change keeps refreshing until it is logged out or expires.              *)
(***************************************************************************)
C24_RefreshIgnoresAccountChanges ==
    /\ []((resp.op = "refresh" /\ ~Falsy(resp.presented) /\ ~resp.storeErr) =>
              /\ resp.status = 200 <=>
                    /\ resp.member
                    /\ SignatureValid(resp.presented)
                    /\ Unexpired(resp.presented)
              /\ resp.status = 200 =>
                    resp.accessCookie = generateAccessToken(resp.presented.username))
    /\ [][resp'.op \in AccountOps =>
              (refreshTokens' = refreshTokens /\ cmdq' = cmdq /\ replyq' = replyq)]_vars

\* A refresh succeeds for a user that has been deleted since the login.
C24_Witness ==
    /\ resp.op = "refresh"
    /\ resp.status = 200
    /\ users[resp.presented.username] = NoUser
    /\ resp.accessCookie.username = resp.presented.username

(***************************************************************************)
(* C23.  Distinct successful logins yield distinct refresh token strings:  *)
(* the token an accepted login returns is none that was issued before (in  *)
(* the set, logged out, or the one the client holds).  jwt.sign derives    *)
(* the string from the username, the second of issue, the secret and the   *)
(* lifetime, so two logins of one user in one second get the same string.  *)
(***************************************************************************)
C23_LoginsYieldDistinctTokens ==
    [][(resp'.op = "login" /\ resp'.status = 200) =>
           resp'.refreshCookie \notin refreshTokens \cup loggedOut \cup {kept.refreshToken}]_vars

C26_ExactlyOneResponse ==
    /\ [](/\ resp.op \in {"login", "refresh", "logout"} =>
                (resp.sent = 1 /\ resp.nextCalls = 0)
          /\ resp.op = "authenticateJWT" => resp.sent + resp.nextCalls = 1)
    /\ [][\A i \in Instances :
              Len(replyq'[i]) < Len(replyq[i]) =>
                  (resp'.op \in {"refresh", "logout"} /\ resp'.sent = 1)]_vars

\* The error callback of a logout has answered its request, once.
C26_Witness ==
    /\ resp.op = "logout"
    /\ resp.storeErr
    /\ resp.status = 500
    /\ resp.sent = 1

(***************************************************************************)
(* C27.  createOrder is all-or-nothing on stock: a call that answers 400   *)
(* (missing product, insufficient stock, validation) or 500 (save failure) *)
(* has written no stock.  The loop saves the decremented stock of each     *)
(* item before it looks at the next one and before the order is saved, and *)
(* nothing puts the stock back.                                            *)
(***************************************************************************)
C27_FailedOrderChangesNoStock ==
    (out.op = "createOrder" /\ out.status \in {400, 500}) => out.saved = 0

(***************************************************************************)
(* C28.  Concurrent createOrder calls on one product never oversell it:    *)
(* the stock is never negative and the quantities of the orders created    *)
(* for a product never exceed its initial stock.  Two calls that both read *)
(* the stock before either saves both pass the check, and the second save  *)
(* overwrites the first.                                                   *)
(***************************************************************************)
C28_NeverOversold ==
    \A p \in Products : stock[p] >= 0 /\ sold[p] <= MaxStock

(***************************************************************************)
(* C29.  The per-user order cache is coherent: the list getOrdersByUserId  *)
(* answers with is the list of that user's orders in the database.         *)
(* createOrder, updateOrder and deleteOrder delete the key "orders:all"    *)
(* only; the list cached under "orders:user:<id>" stays.                   *)
(***************************************************************************)
C29_UserOrdersCoherent ==
    (out.op = "getOrdersByUserId" /\ out.status = 200) => out.list = {OrdersOf(out.user)}

(***************************************************************************)
(* C30.  The product list cache is never stale after a write: whatever     *)
(* list is cached under "products:all" is the list in the database.  A     *)
(* getProducts that has read the database before a write stores its list   *)
(* after the write has deleted the key.                                    *)
(***************************************************************************)
C30_ProductCacheNeverStale ==
    cache[PRODUCT_CACHE_KEY] # {} => cache[PRODUCT_CACHE_KEY] = {stock}

=============================================================================
